---- MODULE Spec2Model ----
(***************************************************************************)
(* Model of src/src/Unserializer.ts: the Haxe-format decoder of qwkpkt.     *)
(* The recursive-descent unserialize() is unfolded into a machine with an  *)
(* explicit call stack: one frame per active unserialize() call, one       *)
(* action per tag handler and per loop iteration of a compound body.       *)
(* Strings are sequences of one-character strings; objects live in a heap  *)
(* and are referred to by address, so that identity can be told from       *)
(* structural equality.                                                   *)
(***************************************************************************)
EXTENDS Integers, Sequences, FiniteSets, TLC

VARIABLES
  classRegister,  \* static Record<string, class>
  enumRegister,   \* static Record<string, enum>
  initialized,    \* static flag set by initialize()
  buf, pos, length, \* the cursor of the Unserializer instance
  cache, scache,  \* compound cache and string cache of the instance
  heap,           \* objects allocated by the decoder, by address 1..Len(heap)
  stack,          \* active unserialize() calls, innermost last
  status,         \* "idle" | "ready" | "running" | "returned" | "error"
  result,         \* value returned by the last completed top-level call
  error,          \* kind of the error raised by the last failed call
  calls,          \* number of top-level unserialize() calls made by the host
  steps,          \* number of tags dispatched by this instance
  started,        \* number of compound tags dispatched by this instance
  born,           \* for each cache slot, the value of started when its tag was read
  skipped,        \* cursor positions passed over by the pos++ that ends an enum value
  ev              \* what the last step did (observation only)

regs == <<classRegister, enumRegister>>
sess == <<buf, length, initialized, calls>>
vars == <<classRegister, enumRegister, initialized, buf, pos, length, cache, scache,
          heap, stack, status, result, error, calls, steps, started, born,
          skipped, ev>>

----------------------------------------------------------------------------
(* Bounds of the model.                                                    *)
MaxLen == 3      \* every input over Alphabet up to this length is decoded
MaxDepth == 6    \* call-stack limit of the engine (RangeError beyond it)
MaxSteps == 14   \* tags dispatched per instance before the model stops looking
MaxCalls == 2    \* top-level unserialize() calls the host makes on one instance

----------------------------------------------------------------------------
(* Values.  Every value is a record of the same shape.                     *)
V(k, n, s) == [k |-> k, n |-> n, s |-> s]
Null == V("null", 0, <<>>)
True == V("bool", 1, <<>>)
False == V("bool", 0, <<>>)
IntV(n) == V("int", n, <<>>)
Float(txt) == V("float", 0, txt)
NaN == V("nan", 0, <<>>)
NegInf == V("ninf", 0, <<>>)
PosInf == V("pinf", 0, <<>>)
Str(s) == V("str", 0, s)
Ref(a) == V("ref", a, <<>>)
Hole == V("hole", 0, <<>>)
Undefined == V("undefined", 0, <<>>)

IsString(v) == v.k = "str"
IsNumber(v) == v.k \in {"int", "float", "nan", "ninf", "pinf"}
IsObject(v) == v.k = "ref"

(* Heap objects. *)
Obj(kind, name, elems, fields, prim) ==
  [kind |-> kind, name |-> name, elems |-> elems, fields |-> fields, prim |-> prim]
NewObj(kind, name) == Obj(kind, name, <<>>, <<>>, Null)

----------------------------------------------------------------------------
(* Characters.                                                             *)
EOF == ""   \* charCodeAt past the end: NaN
Digit == {"0", "1", "2", "3", "4", "5", "6", "7", "8", "9"}
DigitVal == [c \in Digit |->
  CASE c = "0" -> 0 [] c = "1" -> 1 [] c = "2" -> 2 [] c = "3" -> 3 [] c = "4" -> 4
    [] c = "5" -> 5 [] c = "6" -> 6 [] c = "7" -> 7 [] c = "8" -> 8 [] c = "9" -> 9]
DigitChar == <<"0", "1", "2", "3", "4", "5", "6", "7", "8", "9">>

get(p) == IF p >= 0 /\ p < Len(buf) THEN buf[p + 1] ELSE EOF
isEof(c) == c = EOF

\* String.prototype.substr(start, len) for start >= 0
substr(p, len) ==
  IF len <= 0 \/ p >= Len(buf) THEN <<>>
  ELSE SubSeq(buf, p + 1, IF p + len > Len(buf) THEN Len(buf) ELSE p + len)

RECURSIVE readDigitsLoop(_, _, _, _)
readDigitsLoop(p, fpos, k, s) ==
  LET c == get(p)
      done == [k |-> IF s THEN 0 - k ELSE k, pos |-> p] IN
  IF isEof(c) THEN done
  ELSE IF c = "-" THEN (IF p # fpos THEN done ELSE readDigitsLoop(p + 1, fpos, k, TRUE))
  ELSE IF c \notin Digit THEN done
  ELSE readDigitsLoop(p + 1, fpos, k * 10 + DigitVal[c], s)

readDigits(p) == readDigitsLoop(p, p, 0, FALSE)

\* + , - . / 0-9 (codes 43..57), e, E
FloatChar == Digit \cup {"+", ",", "-", ".", "/", "e", "E"}

RECURSIVE floatEnd(_)
floatEnd(p) ==
  LET c == get(p) IN
  IF isEof(c) THEN p ELSE IF c \in FloatChar THEN floatEnd(p + 1) ELSE p

RECURSIVE digitRun(_, _, _)
digitRun(txt, i, k) ==
  IF i <= Len(txt) /\ txt[i] \in Digit THEN digitRun(txt, i + 1, k * 10 + DigitVal[txt[i]])
  ELSE [k |-> k, i |-> i]

\* parseFloat: longest numeric prefix.  An integral literal is the number itself;
\* a literal with a fraction or an exponent is kept by its text.
parseFloat(txt) ==
  LET neg == txt # <<>> /\ txt[1] = "-"
      i0 == IF txt # <<>> /\ txt[1] \in {"+", "-"} THEN 2 ELSE 1
      r == digitRun(txt, i0, 0)
      more == r.i <= Len(txt) /\ txt[r.i] \in {".", "e", "E"} IN
  IF r.i = i0
    THEN (IF r.i < Len(txt) /\ txt[r.i] = "." /\ txt[r.i + 1] \in Digit THEN Float(txt) ELSE NaN)
  ELSE IF more THEN Float(txt)
  ELSE IntV(IF neg THEN 0 - r.k ELSE r.k)

readFloat(p) ==
  LET e == floatEnd(p) IN [v |-> parseFloat(substr(p, e - p)), pos |-> e]

----------------------------------------------------------------------------
(* decodeURIComponent.  A "%" must be followed by two hex digits; the       *)
(* escapes of the characters the inputs use are decoded by table, any      *)
(* other well-formed escape decodes to a character outside the alphabet.   *)
Hex == Digit \cup {"A", "B", "C", "D", "E", "F", "a", "b", "c", "d", "e", "f"}
Unescape(h1, h2) ==
  CASE h1 = "2" /\ h2 = "5" -> "%"
    [] h1 = "3" /\ h2 \in {"A", "a"} -> ":"
    [] h1 = "6" /\ h2 = "7" -> "g"
    [] h1 = "6" /\ h2 = "8" -> "h"
    [] h1 = "4" /\ h2 = "1" -> "A"
    [] OTHER -> "?"

RECURSIVE uriLoop(_, _, _)
uriLoop(s, i, out) ==
  IF i > Len(s) THEN [ok |-> TRUE, s |-> out]
  ELSE IF s[i] # "%" THEN uriLoop(s, i + 1, Append(out, s[i]))
  ELSE IF i + 2 <= Len(s) /\ s[i + 1] \in Hex /\ s[i + 2] \in Hex
    THEN uriLoop(s, i + 3, Append(out, Unescape(s[i + 1], s[i + 2])))
  ELSE [ok |-> FALSE, s |-> <<>>]   \* URIError: URI malformed

decodeURIComponent(s) == uriLoop(s, 1, <<>>)

\* .replace(/%/g, '+').replace(/:/g, '/') of the bytes payload
base64Text(s) == [i \in 1..Len(s) |-> IF s[i] = "%" THEN "+" ELSE IF s[i] = ":" THEN "/" ELSE s[i]]

----------------------------------------------------------------------------
(* Number and value to string, as property keys are made.                  *)
RECURSIVE natChars(_)
natChars(n) == IF n < 10 THEN <<DigitChar[n + 1]>> ELSE Append(natChars(n \div 10), DigitChar[(n % 10) + 1])
intChars(n) == IF n < 0 THEN <<"-">> \o natChars(0 - n) ELSE natChars(n)

RECURSIVE toStringFuel(_, _, _)
toStringFuel(v, hp, fuel) ==
  CASE v.k = "str" -> v.s
    [] v.k = "null" -> <<"n", "u", "l", "l">>
    [] v.k \in {"undefined", "hole"} -> <<"u", "n", "d", "e", "f", "i", "n", "e", "d">>
    [] v.k = "bool" -> (IF v.n = 1 THEN <<"t", "r", "u", "e">> ELSE <<"f", "a", "l", "s", "e">>)
    [] v.k = "int" -> intChars(v.n)
    [] v.k = "float" -> v.s
    [] v.k = "nan" -> <<"N", "a", "N">>
    [] v.k = "ninf" -> <<"-", "I", "n", "f", "i", "n", "i", "t", "y">>
    [] v.k = "pinf" -> <<"I", "n", "f", "i", "n", "i", "t", "y">>
    [] v.k = "ref" ->
         LET o == hp[v.n] IN
         IF o.kind \in {"array", "list"} THEN
           LET piece(e) == IF e.k \in {"null", "undefined", "hole"} \/ fuel = 0 THEN <<>>
                           ELSE toStringFuel(e, hp, fuel - 1)
               join[i \in 0..Len(o.elems)] ==
                 IF i = 0 THEN <<>>
                 ELSE IF i = 1 THEN piece(o.elems[1])
                 ELSE join[i - 1] \o <<",">> \o piece(o.elems[i]) IN
           join[Len(o.elems)]
         ELSE IF o.kind = "bytes" THEN o.prim.s
         ELSE IF o.kind = "wmap" THEN <<"[", "o", "b", "j", "e", "c", "t", " ", "W", "e", "a", "k", "M", "a", "p", "]">>
         ELSE IF o.kind = "date" THEN <<"D", "a", "t", "e">>
         ELSE <<"[", "o", "b", "j", "e", "c", "t", " ", "O", "b", "j", "e", "c", "t", "]">>

toKey(v, hp) == toStringFuel(v, hp, 2)

----------------------------------------------------------------------------
(* Descriptors handed to the registration calls.                           *)
Clazz(id, hasName, name, hook) ==
  [kind |-> "class", id |-> id, hasName |-> hasName, name |-> name, hook |-> hook,
   constructs |-> <<>>]
Enumz(id, hasName, name, constructs) ==
  [kind |-> "enum", id |-> id, hasName |-> hasName, name |-> name, hook |-> 0 - 1,
   constructs |-> constructs]

\* hook: number of values the class's _qwkpktDecode reads, -1 when it has none
ClassA1 == Clazz(1, TRUE, <<"A">>, 0 - 1)
ClassA2 == Clazz(2, TRUE, <<"A">>, 1)
ClassNoName == Clazz(3, FALSE, <<>>, 0 - 1)
ClassEmpty == Clazz(4, TRUE, <<>>, 0 - 1)
ClassNull == Clazz(5, TRUE, <<"n", "u", "l", "l">>, 0 - 1)
ClassUndefined == Clazz(6, TRUE, <<"u", "n", "d", "e", "f", "i", "n", "e", "d">>, 0 - 1)
Classes == {ClassA1, ClassA2, ClassNoName, ClassEmpty, ClassNull, ClassUndefined}

EnumE1 == Enumz(11, TRUE, <<"E">>, <<<<"A">>, <<"B">>>>)
EnumE2 == Enumz(12, TRUE, <<"E">>, <<<<"B">>>>)
EnumNoName == Enumz(13, FALSE, <<>>, <<>>)
EnumEmpty == Enumz(14, TRUE, <<>>, <<>>)
EnumNull == Enumz(15, TRUE, <<"n", "u", "l", "l">>, <<>>)
EnumUndefined == Enumz(16, TRUE, <<"u", "n", "d", "e", "f", "i", "n", "e", "d">>, <<>>)
Enums == {EnumE1, EnumE2, EnumNoName, EnumEmpty, EnumNull, EnumUndefined}

\* What a plain object literal {} inherits from Object.prototype.
ObjectFunction == [kind |-> "Object", id |-> 0, hasName |-> TRUE, name |-> <<"O", "b", "j", "e", "c", "t">>,
                   hook |-> 0 - 1, constructs |-> <<>>]
BuiltinMethod == [kind |-> "builtin", id |-> 0, hasName |-> TRUE, name |-> <<>>,
                  hook |-> 0 - 1, constructs |-> <<>>]
ObjectPrototype == [kind |-> "proto", id |-> 0, hasName |-> FALSE, name |-> <<>>,
                    hook |-> 0 - 1, constructs |-> <<>>]
NoDescriptor == [kind |-> "undefined", id |-> 0, hasName |-> FALSE, name |-> <<>>,
                 hook |-> 0 - 1, constructs |-> <<>>]
InheritedKeys == {<<"c", "o", "n", "s", "t", "r", "u", "c", "t", "o", "r">>, <<"t", "o", "S", "t", "r", "i", "n", "g">>, <<"v", "a", "l", "u", "e", "O", "f">>, <<"_", "_", "p", "r", "o", "t", "o", "_", "_">>}
Inherited(name) ==
  IF name = <<"c", "o", "n", "s", "t", "r", "u", "c", "t", "o", "r">> THEN ObjectFunction
  ELSE IF name = <<"_", "_", "p", "r", "o", "t", "o", "_", "_">> THEN ObjectPrototype
  ELSE BuiltinMethod

\* record[name] on a registry created as {}
Lookup(reg, name) ==
  IF name \in DOMAIN reg THEN reg[name]
  ELSE IF name \in InheritedKeys THEN Inherited(name)
  ELSE NoDescriptor

EmptyRecord == [x \in {} |-> NoDescriptor]
Put(reg, name, d) == [x \in DOMAIN reg \cup {name} |-> IF x = name THEN d ELSE reg[x]]

\* DefaultResolver
resolveClass(name) == Lookup(classRegister, name)
resolveEnum(name) == Lookup(enumRegister, name)

\* Object.create(cli.prototype) succeeds for a function that has a prototype
HasPrototype(d) == d.kind \in {"class", "enum", "Object"}

----------------------------------------------------------------------------
(* Inputs.                                                                 *)
Alphabet == {"a", "h", "u", "y", ":", "1", "r", "R", "o", "g"}

RECURSIVE SeqsUpTo(_, _)
SeqsUpTo(A, n) ==
  IF n = 0 THEN {<<>>}
  ELSE LET shorter == SeqsUpTo(A, n - 1) IN
       shorter \cup {Append(s, c) : s \in {t \in shorter : Len(t) = n - 1}, c \in A}

\* inputs the properties below refer to by name
InNegativeString == <<"a", "y", "-", "4", ":">>
InNegativeBytes == <<"l", "s", "-", "4", ":">>
InSelfArray == <<"a", "r", "0", "h">>
InSelfObject == <<"o", "y", "1", ":", "x", "r", "0", "g">>
InSelfInstance == <<"c", "y", "1", ":", "A", "y", "1", ":", "s", "r", "0", "g">>
InShared == <<"a", "a", "h", "r", "1", "r", "1", "h">>
InEnumTwoArgs == <<"w", "y", "1", ":", "E", "y", "1", ":", "B", ":", "2", "z", "i", "1", "X", "n">>
InEnumArrayArg == <<"a", "w", "y", "1", ":", "E", "y", "1", ":", "A", ":", "1", "a", "h", "X", "r", "0", "r", "1", "h">>
InEnumByIndex == <<"j", "y", "1", ":", "E", ":", "1", ":", "1", "n">>
InFillZero == <<"a", "z", "u", "h">>
InFillThree == <<"a", "i", "1", "u", "3", "h">>
InObjectHKey == <<"o", "y", "1", ":", "x", "i", "5", "h">>
InObjectRefKey == <<"o", "y", "1", ":", "a", "i", "1", "R", "0", "i", "2", "g">>
InFirstString == <<"a", "y", "1", ":", "p", "y", "1", ":", "q", "y", "1", ":", "p", "R", "0", "R", "2", "h">>

Curated == {
  InNegativeString, InNegativeBytes, InSelfArray, InSelfObject, InSelfInstance, InShared,
  InEnumTwoArgs, InEnumArrayArg, InEnumByIndex, InFillZero, InFillThree, InObjectHKey,
  InObjectRefKey, InFirstString,
  <<"n">>, <<"t", "f">>, <<"i", "4", "2">>, <<"i", "-", "1", "2">>, <<"d", "1", ".", "5">>, <<"d", "7">>, <<"k", "m", "p">>,
  <<"y", "3", ":", "a", "b", "c">>, <<"y", "3", ":", "%", "6", "8">>, <<"y", "1", ":", "%">>, <<"y", "-", "4", ":">>, <<"y", "9", ":", "a", "b">>, <<"y", "2", "a", "b">>, <<"a", "y", "-", "5", ":">>, <<"a", "y", "-", "3", ":", "h">>,
  <<"a", "i", "1", "i", "2", "h">>, <<"a", "u", "3", "h">>, <<"a", "z", "n", "u", "0", "h">>, <<"a", "i", "1", "u", "2", "i", "3", "h">>, <<"a", "i", "1", "i", "2", "u", "-", "1", "h">>, <<"a", "u", "-", "1", "h">>, <<"a", "i", "1">>,
  <<"o", "y", "1", ":", "x", "i", "5", "g">>, <<"o", "i", "1", "i", "2", "g">>, <<"o", "y", "1", ":", "x">>, <<"o", "y", "1", ":", "x", "i", "5">>, <<"o", "y", "1", ":", "x", "y", "1", ":", "y", "g">>, <<"o", "n", "n", "g">>,
  <<"c", "y", "1", ":", "A", "y", "1", ":", "x", "i", "5", "g">>, <<"c", "y", "1", ":", "Z", "g">>, <<"c", "y", "1", "1", ":", "c", "o", "n", "s", "t", "r", "u", "c", "t", "o", "r", "g">>, <<"c", "y", "8", ":", "t", "o", "S", "t", "r", "i", "n", "g", "g">>, <<"c", "y", "9", ":", "_", "_", "p", "r", "o", "t", "o", "_", "_", "g">>,
  <<"c", "n", "g">>, <<"c", "a", "y", "1", "1", ":", "c", "o", "n", "s", "t", "r", "u", "c", "t", "o", "r", "h", "g">>,
  <<"C", "y", "1", ":", "A", "i", "7", "g">>, <<"C", "y", "1", ":", "A", "i", "7", "h">>, <<"C", "y", "1", ":", "Z", "g">>, <<"C", "y", "1", "1", ":", "c", "o", "n", "s", "t", "r", "u", "c", "t", "o", "r", "g">>, <<"C", "y", "8", ":", "t", "o", "S", "t", "r", "i", "n", "g", "g">>,
  <<"w", "y", "1", ":", "E", "y", "1", ":", "A", ":", "0">>, <<"w", "y", "1", ":", "E", "y", "1", ":", "A", ":", "0", "g", "n">>, <<"w", "y", "1", ":", "E", "y", "1", ":", "C", ":", "0">>, <<"w", "y", "1", ":", "E", "i", "1", ":", "0">>, <<"w", "y", "1", ":", "Z", "y", "1", ":", "A", ":", "0">>,
  <<"w", "y", "1", "1", ":", "c", "o", "n", "s", "t", "r", "u", "c", "t", "o", "r", "y", "1", ":", "A", ":", "0">>, <<"w", "y", "8", ":", "t", "o", "S", "t", "r", "i", "n", "g", "a", "h", ":", "0">>, <<"w", "y", "1", ":", "E", "y", "1", ":", "A", ":", "-", "1">>, <<"w", "y", "1", ":", "E", "y", "1", ":", "A", ":", "1">>,
  <<"j", "y", "1", ":", "E", ":", "0", ":", "0">>, <<"j", "y", "1", ":", "E", ":", "5", ":", "0">>, <<"j", "y", "1", ":", "Z", ":", "0", ":", "0">>, <<"j", "y", "1", "1", ":", "c", "o", "n", "s", "t", "r", "u", "c", "t", "o", "r", ":", "0", ":", "0">>, <<"j", "y", "1", ":", "E", ":", "0", ":", "1", "a", "r", "0", "h", "X", "r", "1">>,
  <<"a", "w", "y", "1", ":", "E", "y", "1", ":", "A", ":", "0", "z", "y", "-", "5", ":", "h">>,
  <<"l", "i", "1", "i", "2", "h">>, <<"l", "y", "1", ":", "a", "h">>, <<"l">>,
  <<"b", "y", "1", ":", "k", "i", "1", "h">>, <<"b", "i", "1", "i", "2", "y", "1", ":", "1", "i", "3", "h">>, <<"b", "y", "1", ":", "k">>,
  <<"M", "a", "h", "i", "1", "h">>, <<"M", "i", "1", "i", "2", "h">>, <<"M">>,
  <<"q", ":", "1", "i", "5", ":", "2", "n", "h">>, <<"q", ":", "1", "i", "5", "x">>, <<"q", "h">>, <<"q">>,
  <<"v", "1", "2", "3", "4">>, <<"v">>, <<"s", "4", ":", "Y", "W", "J", "j">>, <<"s", "4", ":", "a", "%", "b", ":">>, <<"s", "9", ":", "a", "b">>, <<"s", "4">>,
  <<"x", "y", "1", ":", "e">>, <<"x", "x">>, <<"A">>, <<"B">>, <<"a", "a", "a", "a", "a", "a", "a", "a">>, <<"r", "R">>, <<"a", "r", "5", "h">>, <<"R", "0">>
}

Inputs == SeqsUpTo(Alphabet, MaxLen) \cup Curated

----------------------------------------------------------------------------
(* Frames of the call stack.                                               *)
Frame(op, st) ==
  [op |-> op, st |-> st, obj |-> 0, n |-> 0, key |-> Null, v |-> Null, acc |-> <<>>,
   edecl |-> NoDescriptor, ctor |-> <<>>, sb |-> 0, slot |-> 0 - 1]
CallFrame == Frame("?", "call")

Top == stack[Len(stack)]
SetTop(f) == [stack EXCEPT ![Len(stack)] = f]
At(st) == status = "running" /\ stack # <<>> /\ Top.st = st

\* op: the step; ok: 1 unless the step raised an error or was rejected; n: the number
\* it read; a: the address or descriptor it concerns; pre: values it observed
Ev(op, ok, n, a, pre) == [op |-> op, ok |-> ok, n |-> n, a |-> a, pre |-> pre]

\* return v from the innermost unserialize() call
Return(v) ==
  IF Len(stack) = 1
    THEN stack' = <<>> /\ status' = "returned" /\ result' = v /\ error' = error
    ELSE /\ stack' = [SubSeq(stack, 1, Len(stack) - 1) EXCEPT ![Len(stack) - 1].v = v]
         /\ UNCHANGED <<status, result, error>>

\* throw: the exception unwinds every active call
Throw(e) == stack' = <<>> /\ status' = "error" /\ error' = e /\ result' = result

\* this.unserialize() called from the frame f, which resumes in f.st
CallChild(f) ==
  IF Len(stack) >= MaxDepth
    THEN Throw("RangeError: Maximum call stack size exceeded")
    ELSE stack' = Append(SetTop(f), CallFrame) /\ UNCHANGED <<status, result, error>>

FormatErrors == {"Invalid string length", "Invalid reference", "Invalid string reference",
                 "Invalid object", "Invalid object key", "Invalid IntMap format",
                 "Invalid custom data", "Invalid bytes length", "Invalid char"}

----------------------------------------------------------------------------
Init ==
  /\ classRegister = EmptyRecord
  /\ enumRegister = EmptyRecord
  /\ initialized = FALSE
  /\ buf = <<>> /\ pos = 0 /\ length = 0
  /\ cache = <<>> /\ scache = <<>> /\ heap = <<>>
  /\ stack = <<>>
  /\ status = "idle"
  /\ result = Null
  /\ error = ""
  /\ calls = 0 /\ steps = 0 /\ started = 0 /\ born = <<>> /\ skipped = {}
  /\ ev = Ev("init", 1, 0, 0, <<>>)

inst == <<pos, cache, scache, heap, stack, status, result, error, steps, started, born,
          skipped>>

InvalidNameNoNull(name) == name = <<"u", "n", "d", "e", "f", "i", "n", "e", "d">> \/ name = <<>>
InvalidName(name) == name = <<"u", "n", "d", "e", "f", "i", "n", "e", "d">> \/ name = <<"n", "u", "l", "l">> \/ name = <<>>

registerSerializableClass ==
  /\ status = "idle"
  /\ \E clazz \in Classes :
    /\ IF ~clazz.hasName \/ InvalidName(clazz.name)
         THEN UNCHANGED regs /\ ev' = Ev("registerClass", 0, 0, clazz.id, <<>>)
         ELSE /\ classRegister' = Put(classRegister, clazz.name, clazz)
              /\ UNCHANGED enumRegister
              /\ ev' = Ev("registerClass", 1, 0, clazz.id, <<>>)
    /\ UNCHANGED <<sess, inst>>

registerSerializableEnum ==
  /\ status = "idle"
  /\ \E enumz \in Enums :
    /\ IF ~enumz.hasName \/ InvalidName(enumz.name)
         THEN UNCHANGED regs /\ ev' = Ev("registerEnum", 0, 0, enumz.id, <<>>)
         ELSE /\ enumRegister' = Put(enumRegister, enumz.name, enumz)
              /\ UNCHANGED classRegister
              /\ ev' = Ev("registerEnum", 1, 0, enumz.id, <<>>)
    /\ UNCHANGED <<sess, inst>>

\* new Unserializer(s)
constructor ==
  /\ status = "idle"
  /\ \E s \in Inputs :
    /\ initialized' = TRUE
    /\ buf' = s /\ length' = Len(s) /\ pos' = 0
    /\ cache' = <<>> /\ scache' = <<>> /\ heap' = <<>> /\ stack' = <<>>
    /\ status' = "ready" /\ result' = Null /\ error' = ""
    /\ calls' = 0 /\ steps' = 0 /\ started' = 0 /\ born' = <<>> /\ skipped' = {}
    /\ ev' = Ev("new", 1, 0, 0, <<>>)
    /\ UNCHANGED regs

\* the host drops the instance once a call has returned or failed; the static
\* registries outlive it
dispose ==
  /\ status \in {"returned", "error"}
  /\ buf' = <<>> /\ length' = 0 /\ pos' = 0
  /\ cache' = <<>> /\ scache' = <<>> /\ heap' = <<>> /\ stack' = <<>>
  /\ status' = "idle" /\ result' = Null /\ error' = ""
  /\ calls' = 0 /\ steps' = 0 /\ started' = 0 /\ born' = <<>> /\ skipped' = {}
  /\ ev' = Ev("dispose", 1, 0, 0, <<>>)
  /\ UNCHANGED <<regs, initialized>>

\* the host calls unserialize() on the instance
unserialize ==
  /\ status \in {"ready", "returned"}
  /\ calls < MaxCalls
  /\ calls' = calls + 1
  /\ stack' = <<CallFrame>>
  /\ status' = "running"
  /\ ev' = Ev("call", 1, 0, 0, <<>>)
  /\ UNCHANGED <<regs, initialized, buf, length, pos, cache, scache, heap, result, error,
                 steps, started, born>>
  /\ UNCHANGED skipped

\* switch (get(this.pos++)) taking one of the given cases
Dispatch(tags) ==
  /\ At("call")
  /\ steps < MaxSteps
  /\ get(pos) \in tags
  /\ steps' = steps + 1

ScalarValue(c) ==
  CASE c = "n" -> Null [] c = "t" -> True [] c = "f" -> False [] c = "z" -> IntV(0)
    [] c = "k" -> NaN [] c = "m" -> NegInf [] c = "p" -> PosInf

caseScalar ==
  /\ Dispatch({"n", "t", "f", "z", "k", "m", "p"})
  /\ pos' = pos + 1
  /\ Return(ScalarValue(get(pos)))
  /\ ev' = Ev("scalar", 1, 0, 0, <<>>)
  /\ UNCHANGED <<regs, sess, cache, scache, heap, started, born>>
  /\ UNCHANGED skipped

caseInteger ==
  /\ Dispatch({"i"})
  /\ LET r == readDigits(pos + 1) IN pos' = r.pos /\ Return(IntV(r.k))
  /\ ev' = Ev("i", 1, 0, 0, <<>>)
  /\ UNCHANGED <<regs, sess, cache, scache, heap, started, born>>
  /\ UNCHANGED skipped

caseFloat ==
  /\ Dispatch({"d"})
  /\ LET r == readFloat(pos + 1) IN pos' = r.pos /\ Return(r.v)
  /\ ev' = Ev("d", 1, 0, 0, <<>>)
  /\ UNCHANGED <<regs, sess, cache, scache, heap, started, born>>
  /\ UNCHANGED skipped

\* this.scache.push(s)
scachePushDistinct(sc, s) ==
  IF \E i \in 1..Len(sc) : sc[i] = Str(s) THEN sc ELSE Append(sc, Str(s))
scachePush(sc, s) == Append(sc, Str(s))

caseString ==
  /\ Dispatch({"y"})
  /\ LET r == readDigits(pos + 1)
         len == r.k
         p2 == r.pos + 1
         d == decodeURIComponent(substr(p2, len)) IN
     IF get(r.pos) # ":" \/ length - p2 < len
       THEN pos' = p2 /\ Throw("Invalid string length") /\ scache' = scache
                      /\ ev' = Ev("y", 0, len, 0, <<>>)
     ELSE IF ~d.ok
       THEN pos' = p2 + len /\ Throw("URIError") /\ scache' = scache
                            /\ ev' = Ev("y", 0, len, 0, <<>>)
     ELSE pos' = p2 + len /\ scache' = scachePush(scache, d.s) /\ Return(Str(d.s))
                          /\ ev' = Ev("y", 1, len, 0, <<>>)
  /\ UNCHANGED <<regs, sess, cache, heap, started, born>>
  /\ UNCHANGED skipped

\* n < 0 || n >= this.cache.length
InvalidReferenceOffByOne(n, len) == n < 0 \/ n > len
InvalidReference(n, len) == n < 0 \/ n >= len

\* this.cache[n]: indexing past the end of an array gives undefined
cacheGetNext(c, n) == IF n + 1 >= 0 /\ n + 1 < Len(c) THEN c[n + 2] ELSE Undefined
cacheGet(c, n) == IF n >= 0 /\ n < Len(c) THEN c[n + 1] ELSE Undefined

caseReference ==
  /\ Dispatch({"r"})
  /\ LET r == readDigits(pos + 1)
         n == r.k IN
     /\ pos' = r.pos
     /\ IF InvalidReference(n, Len(cache))
          THEN Throw("Invalid reference") /\ ev' = Ev("r", 0, n, 0, <<>>)
          ELSE Return(cacheGet(cache, n)) /\ ev' = Ev("r", 1, n, 0, <<>>)
  /\ UNCHANGED <<regs, sess, cache, scache, heap, started, born>>
  /\ UNCHANGED skipped

caseStringReference ==
  /\ Dispatch({"R"})
  /\ LET r == readDigits(pos + 1)
         n == r.k IN
     /\ pos' = r.pos
     /\ IF InvalidReference(n, Len(scache))
          THEN Throw("Invalid string reference") /\ ev' = Ev("R", 0, n, 0, <<>>)
          ELSE Return(cacheGet(scache, n)) /\ ev' = Ev("R", 1, n, 0, <<>>)
  /\ UNCHANGED <<regs, sess, cache, scache, heap, started, born>>
  /\ UNCHANGED skipped

\* case "x": throw new Error(this.unserialize())
caseException ==
  /\ Dispatch({"x"})
  /\ pos' = pos + 1
  /\ CallChild([Top EXCEPT !.op = "x", !.st = "x.throw"])
  /\ ev' = Ev("x", 1, 0, 0, <<>>)
  /\ UNCHANGED <<regs, sess, cache, scache, heap, started, born>>
  /\ UNCHANGED skipped

throwException ==
  /\ At("x.throw")
  /\ Throw("Thrown")
  /\ ev' = Ev("throw", 0, 0, 0, <<Top.v>>)
  /\ UNCHANGED <<regs, sess, pos, cache, scache, heap, steps, started, born>>
  /\ UNCHANGED skipped

caseUnsupported ==
  /\ Dispatch({"A", "B"})
  /\ pos' = pos + 1
  /\ Throw("not implemented")
  /\ ev' = Ev("AB", 0, 0, 0, <<>>)
  /\ UNCHANGED <<regs, sess, cache, scache, heap, started, born>>
  /\ UNCHANGED skipped

Tags == {"n", "t", "f", "z", "i", "d", "y", "k", "m", "p", "a", "o", "r", "R", "x", "c",
         "w", "j", "l", "b", "q", "M", "v", "s", "C", "A", "B"}
CompoundTags == {"a", "o", "c", "C", "l", "b", "q", "M", "v", "s", "w", "j"}

\* default: this.pos--; throw "Invalid char"
caseDefault ==
  /\ At("call")
  /\ steps < MaxSteps
  /\ get(pos) \notin Tags
  /\ steps' = steps + 1
  /\ pos' = pos
  /\ Throw("Invalid char")
  /\ ev' = Ev("default", 0, 0, 0, <<>>)
  /\ UNCHANGED <<regs, sess, cache, scache, heap, started, born>>
  /\ UNCHANGED skipped

----------------------------------------------------------------------------
(* Compound values.                                                        *)
Alloc(o) == Append(heap, o)
NewAddr == Len(heap) + 1

\* this.cache.push(value) by the tag read when `started` had the value sb
CachePushTwice(v, sb) == cache' = cache \o <<v, v>> /\ born' = born \o <<sb, sb>>
CachePush(v, sb) == cache' = Append(cache, v) /\ born' = Append(born, sb)

\* o[k] = v on a record of fields kept in insertion order
RECURSIVE FieldIndex(_, _, _)
FieldIndex(fields, key, i) ==
  IF i > Len(fields) THEN 0 ELSE IF fields[i].key = key THEN i ELSE FieldIndex(fields, key, i + 1)
SetField(fields, key, val) ==
  LET i == FieldIndex(fields, key, 1) IN
  IF i = 0 THEN Append(fields, [key |-> key, val |-> val]) ELSE [fields EXCEPT ![i].val = val]

\* a[idx] = null on a JavaScript array: extends with holes, overwrites, or (negative
\* idx) sets an ordinary property
SetIndexNull(o, idx) ==
  IF idx >= Len(o.elems)
    THEN [o EXCEPT !.elems = o.elems \o [i \in 1..(idx - Len(o.elems)) |-> Hole] \o <<Null>>]
  ELSE IF idx >= 0 THEN [o EXCEPT !.elems[idx + 1] = Null]
  ELSE [o EXCEPT !.fields = SetField(o.fields, Str(intChars(idx)), Null)]

\* the heap once the assignment the frame was waiting to make is done
PushPending(f, st) ==
  IF f.st = st THEN [heap EXCEPT ![f.obj].elems = Append(@, f.v)] ELSE heap
FieldPending(f, st, key) ==
  IF f.st = st THEN [heap EXCEPT ![f.obj].fields = SetField(@, key, f.v)] ELSE heap

Start(f, op, st, addr) ==
  [f EXCEPT !.op = op, !.st = st, !.obj = addr, !.sb = started, !.slot = Len(cache)]

caseArray ==
  /\ Dispatch({"a"})
  /\ pos' = pos + 1
  /\ heap' = Alloc(NewObj("array", <<>>))
  /\ CachePush(Ref(NewAddr), started)
  /\ started' = started + 1
  /\ stack' = SetTop(Start(Top, "a", "a.loop", NewAddr))
  /\ ev' = Ev("a", 1, 0, NewAddr, <<>>)
  /\ UNCHANGED <<regs, sess, scache, status, result, error>>
  /\ UNCHANGED skipped

InArray == At("a.loop") \/ At("a.push")

arrayEnd ==
  /\ InArray
  /\ get(pos) = "h"
  /\ pos' = pos + 1
  /\ heap' = PushPending(Top, "a.push")
  /\ Return(Ref(Top.obj))
  /\ ev' = Ev("a.end", 1, 0, Top.obj, <<>>)
  /\ UNCHANGED <<regs, sess, cache, scache, steps, started, born>>
  /\ UNCHANGED skipped

sparseFill(a, n) == SetIndexNull(a, Len(a.elems) + n - 1)

arrayFill ==
  /\ InArray
  /\ get(pos) = "u"
  /\ LET hp == PushPending(Top, "a.push")
         r == readDigits(pos + 1) IN
     /\ pos' = r.pos
     /\ heap' = [hp EXCEPT ![Top.obj] = sparseFill(@, r.k)]
     /\ ev' = Ev("u", 1, r.k, Top.obj, hp[Top.obj].elems)
  /\ stack' = SetTop([Top EXCEPT !.st = "a.loop"])
  /\ UNCHANGED <<regs, sess, cache, scache, status, result, error, steps, started, born>>
  /\ UNCHANGED skipped

arrayElement ==
  /\ InArray
  /\ get(pos) \notin {"h", "u"}
  /\ heap' = PushPending(Top, "a.push")
  /\ CallChild([Top EXCEPT !.st = "a.push"])
  /\ ev' = Ev("a.elem", 1, 0, Top.obj, <<>>)
  /\ UNCHANGED <<regs, sess, pos, cache, scache, steps, started, born>>
  /\ UNCHANGED skipped

caseList ==
  /\ Dispatch({"l"})
  /\ pos' = pos + 1
  /\ heap' = Alloc(NewObj("list", <<>>))
  /\ CachePush(Ref(NewAddr), started)
  /\ started' = started + 1
  /\ stack' = SetTop(Start(Top, "l", "l.loop", NewAddr))
  /\ ev' = Ev("l", 1, 0, NewAddr, <<>>)
  /\ UNCHANGED <<regs, sess, scache, status, result, error>>
  /\ UNCHANGED skipped

InList == At("l.loop") \/ At("l.push")

listElement ==
  /\ InList
  /\ get(pos) # "h"
  /\ heap' = PushPending(Top, "l.push")
  /\ CallChild([Top EXCEPT !.st = "l.push"])
  /\ ev' = Ev("l.elem", 1, 0, Top.obj, <<>>)
  /\ UNCHANGED <<regs, sess, pos, cache, scache, steps, started, born>>
  /\ UNCHANGED skipped

listEnd ==
  /\ InList
  /\ get(pos) = "h"
  /\ pos' = pos + 1
  /\ heap' = PushPending(Top, "l.push")
  /\ Return(Ref(Top.obj))
  /\ ev' = Ev("l.end", 1, 0, Top.obj, <<>>)
  /\ UNCHANGED <<regs, sess, cache, scache, steps, started, born>>
  /\ UNCHANGED skipped

caseObject ==
  /\ Dispatch({"o"})
  /\ pos' = pos + 1
  /\ heap' = Alloc(NewObj("object", <<>>))
  /\ CachePush(Ref(NewAddr), started)
  /\ started' = started + 1
  /\ stack' = SetTop(Start(Top, "o", "o.loop", NewAddr))
  /\ ev' = Ev("o", 1, 0, NewAddr, <<>>)
  /\ UNCHANGED <<regs, sess, scache, status, result, error>>
  /\ UNCHANGED skipped

\* unserializeObject(o): one action per outcome of an iteration of its loop
InObject == At("o.loop") \/ At("o.val")

unserializeObjectEof ==
  /\ InObject
  /\ pos >= length
  /\ heap' = FieldPending(Top, "o.val", Top.key)
  /\ Throw("Invalid object")
  /\ ev' = Ev("o.eof", 0, 0, Top.obj, <<>>)
  /\ UNCHANGED <<regs, sess, pos, cache, scache, steps, started, born>>
  /\ UNCHANGED skipped

unserializeObjectEnd ==
  /\ InObject
  /\ pos < length
  /\ get(pos) = "g"
  /\ pos' = pos + 1
  /\ heap' = FieldPending(Top, "o.val", Top.key)
  /\ Return(Ref(Top.obj))
  /\ ev' = Ev("o.end", 1, 0, Top.obj, <<>>)
  /\ UNCHANGED <<regs, sess, cache, scache, steps, started, born>>
  /\ UNCHANGED skipped

unserializeObjectNext ==
  /\ InObject
  /\ pos < length
  /\ get(pos) # "g"
  /\ heap' = FieldPending(Top, "o.val", Top.key)
  /\ CallChild([Top EXCEPT !.st = "o.key"])
  /\ ev' = Ev("o.next", 1, 0, Top.obj, <<>>)
  /\ UNCHANGED <<regs, sess, pos, cache, scache, steps, started, born>>
  /\ UNCHANGED skipped

\* typeof (k) != "string"
isStringKeyAny(k) == TRUE
isStringKey(k) == IsString(k)

unserializeObjectKey ==
  /\ At("o.key")
  /\ IF ~isStringKey(Top.v)
       THEN Throw("Invalid object key") /\ ev' = Ev("o.key", 0, 0, Top.obj, <<Top.v>>)
       ELSE /\ CallChild([Top EXCEPT !.st = "o.val", !.key = Top.v])
            /\ ev' = Ev("o.key", 1, 0, Top.obj, <<Top.v>>)
  /\ UNCHANGED <<regs, sess, pos, cache, scache, heap, steps, started, born>>
  /\ UNCHANGED skipped

caseClass ==
  /\ Dispatch({"c"})
  /\ pos' = pos + 1
  /\ started' = started + 1
  /\ CallChild([Top EXCEPT !.op = "c", !.st = "c.name", !.sb = started])
  /\ ev' = Ev("c", 1, 0, 0, <<>>)
  /\ UNCHANGED <<regs, sess, cache, scache, heap, born>>
  /\ UNCHANGED skipped

classInstance ==
  /\ At("c.name")
  /\ LET cname == toKey(Top.v, heap)
         cli == resolveClass(cname) IN
     IF cli.kind = "undefined"      \* !cli
       THEN /\ Throw("Class not found")
            /\ UNCHANGED <<heap, cache, born>>
            /\ ev' = Ev("resolveClass", 0, 0, 0, <<Str(cname)>>)
     ELSE IF ~HasPrototype(cli)     \* Object.create(undefined)
       THEN /\ Throw("TypeError")
            /\ UNCHANGED <<heap, cache, born>>
            /\ ev' = Ev("resolveClass", 0, 0, 0, <<Str(cname)>>)
     ELSE /\ heap' = Alloc(NewObj("instance", cli.name))
          /\ CachePush(Ref(NewAddr), Top.sb)
          /\ stack' = SetTop([Top EXCEPT !.st = "o.loop", !.obj = NewAddr, !.slot = Len(cache)])
          /\ UNCHANGED <<status, result, error>>
          /\ ev' = Ev("resolveClass", 1, 0, NewAddr, <<Str(cname)>>)
  /\ UNCHANGED <<regs, sess, pos, scache, steps, started>>
  /\ UNCHANGED skipped

caseCustom ==
  /\ Dispatch({"C"})
  /\ pos' = pos + 1
  /\ started' = started + 1
  /\ CallChild([Top EXCEPT !.op = "C", !.st = "C.name", !.sb = started])
  /\ ev' = Ev("C", 1, 0, 0, <<>>)
  /\ UNCHANGED <<regs, sess, cache, scache, heap, born>>
  /\ UNCHANGED skipped

customInstance ==
  /\ At("C.name")
  /\ LET name == toKey(Top.v, heap)
         cl == resolveClass(name) IN
     IF cl.kind = "undefined"       \* cl == null
       THEN /\ Throw("Class not found")
            /\ UNCHANGED <<heap, cache, born>>
            /\ ev' = Ev("resolveClass", 0, 0, 0, <<Str(name)>>)
     ELSE IF ~HasPrototype(cl)
       THEN /\ Throw("TypeError")
            /\ UNCHANGED <<heap, cache, born>>
            /\ ev' = Ev("resolveClass", 0, 0, 0, <<Str(name)>>)
     ELSE /\ heap' = Alloc(NewObj("custom", cl.name))
          /\ CachePush(Ref(NewAddr), Top.sb)
          /\ ev' = Ev("resolveClass", 1, 0, NewAddr, <<Str(name)>>)
          /\ IF cl.hook < 0         \* cclo._qwkpktDecode is not a function
               THEN Throw("TypeError")
               ELSE /\ stack' = SetTop([Top EXCEPT !.st = "C.hook", !.obj = NewAddr,
                                                    !.n = cl.hook, !.slot = Len(cache)])
                    /\ UNCHANGED <<status, result, error>>
  /\ UNCHANGED <<regs, sess, pos, scache, steps, started>>
  /\ UNCHANGED skipped

\* cclo._qwkpktDecode(this): the hook reads its values with unserialize()
InHook == At("C.hook") \/ At("C.val")

customDecode ==
  /\ InHook
  /\ Len(PushPending(Top, "C.val")[Top.obj].elems) < Top.n
  /\ heap' = PushPending(Top, "C.val")
  /\ CallChild([Top EXCEPT !.st = "C.val"])
  /\ ev' = Ev("C.read", 1, 0, Top.obj, <<>>)
  /\ UNCHANGED <<regs, sess, pos, cache, scache, steps, started, born>>
  /\ UNCHANGED skipped

customEnd ==
  /\ InHook
  /\ Len(PushPending(Top, "C.val")[Top.obj].elems) >= Top.n
  /\ heap' = PushPending(Top, "C.val")
  /\ pos' = pos + 1
  /\ IF get(pos) # "g" THEN Throw("Invalid custom data") ELSE Return(Ref(Top.obj))
  /\ ev' = Ev("C.end", IF get(pos) # "g" THEN 0 ELSE 1, 0, Top.obj, <<>>)
  /\ UNCHANGED <<regs, sess, cache, scache, steps, started, born>>
  /\ UNCHANGED skipped

\* constructs.find(e => e.name === tag), or constructs[tag] for a number
RECURSIVE FindConstruct(_, _, _)
FindConstruct(constructs, name, i) ==
  IF i > Len(constructs) THEN 0
  ELSE IF constructs[i] = name THEN i ELSE FindConstruct(constructs, name, i + 1)
EnumConstruct(constructs, tag) ==
  IF IsNumber(tag)
    THEN (IF tag.k = "int" /\ tag.n >= 0 /\ tag.n < Len(constructs) THEN tag.n + 1 ELSE 0)
  ELSE IF IsString(tag) THEN FindConstruct(constructs, tag.s, 1)
  ELSE 0

\* unserializeEnum(edecl, tag) entered with the cursor at p, up to the reading of
\* the argument count; the arguments are decoded by enumArgument
unserializeEnum(edecl, tag, p) ==
  LET c == EnumConstruct(edecl.constructs, tag)
      r == readDigits(p + 1)
      numArgs == r.k IN
  IF edecl.kind # "enum"           \* edecl.getEnumConstructs is not a function
    THEN pos' = p + 1 /\ Throw("TypeError")
  ELSE IF c = 0
    THEN pos' = p + 1 /\ Throw("Unknown enum index/name")
  ELSE IF numArgs < 0              \* Array(numArgs)
    THEN pos' = r.pos /\ Throw("RangeError: Invalid array length")
  ELSE /\ pos' = r.pos
       /\ stack' = SetTop([Top EXCEPT !.st = "e.args", !.n = numArgs, !.acc = <<>>,
                                      !.ctor = edecl.constructs[c], !.edecl = edecl])
       /\ UNCHANGED <<status, result, error>>

caseEnumByName ==
  /\ Dispatch({"w"})
  /\ pos' = pos + 1
  /\ started' = started + 1
  /\ CallChild([Top EXCEPT !.op = "w", !.st = "w.name", !.sb = started])
  /\ ev' = Ev("w", 1, 0, 0, <<>>)
  /\ UNCHANGED <<regs, sess, cache, scache, heap, born>>
  /\ UNCHANGED skipped

enumByNameResolve ==
  /\ At("w.name")
  /\ LET ename1 == toKey(Top.v, heap)
         edecl1 == resolveEnum(ename1) IN
     /\ IF edecl1.kind = "undefined"    \* edecl1 == null
          THEN Throw("Enum not found")
          ELSE CallChild([Top EXCEPT !.st = "w.tag", !.edecl = edecl1])
     /\ ev' = Ev("resolveEnum", IF edecl1.kind = "undefined" THEN 0 ELSE 1, 0, 0, <<Str(ename1)>>)
  /\ UNCHANGED <<regs, sess, pos, cache, scache, heap, steps, started, born>>
  /\ UNCHANGED skipped

enumByNameTag ==
  /\ At("w.tag")
  /\ unserializeEnum(Top.edecl, Top.v, pos)
  /\ ev' = Ev("enumTag", 1, 0, 0, <<Top.v>>)
  /\ UNCHANGED <<regs, sess, cache, scache, heap, steps, started, born>>
  /\ UNCHANGED skipped

caseEnumByIndex ==
  /\ Dispatch({"j"})
  /\ pos' = pos + 1
  /\ started' = started + 1
  /\ CallChild([Top EXCEPT !.op = "j", !.st = "j.name", !.sb = started])
  /\ ev' = Ev("j", 1, 0, 0, <<>>)
  /\ UNCHANGED <<regs, sess, cache, scache, heap, born>>
  /\ UNCHANGED skipped

enumByIndexResolve ==
  /\ At("j.name")
  /\ LET ename2 == toKey(Top.v, heap)
         edecl2 == resolveEnum(ename2)
         index == readDigits(pos + 1) IN
     /\ IF edecl2.kind = "undefined"    \* edecl2 == null
          THEN Throw("Enum not found") /\ pos' = pos
          ELSE unserializeEnum(edecl2, IntV(index.k), index.pos)
     /\ ev' = Ev("resolveEnum", IF edecl2.kind = "undefined" THEN 0 ELSE 1, 0, 0, <<Str(ename2)>>)
  /\ UNCHANGED <<regs, sess, cache, scache, heap, steps, started, born>>
  /\ UNCHANGED skipped

InEnum == At("e.args") \/ At("e.arg")
\* the arguments decoded so far, in the order map() calls back
ArgsSoFarReversed(f) == IF f.st = "e.arg" THEN <<f.v>> \o f.acc ELSE f.acc
ArgsSoFar(f) == IF f.st = "e.arg" THEN Append(f.acc, f.v) ELSE f.acc

\* Array(numArgs).fill(0).map(_ => this.unserialize()), one argument per step
enumArgument ==
  /\ InEnum
  /\ Len(ArgsSoFar(Top)) < Top.n
  /\ CallChild([Top EXCEPT !.st = "e.arg", !.acc = ArgsSoFar(Top)])
  /\ ev' = Ev("e.arg", 1, 0, 0, <<>>)
  /\ UNCHANGED <<regs, sess, pos, cache, scache, heap, steps, started, born>>
  /\ UNCHANGED skipped

\* new enumClass(...args); this.cache.push(e); this.pos++; return e
enumConstruct ==
  /\ InEnum
  /\ Len(ArgsSoFar(Top)) >= Top.n
  /\ heap' = Alloc(Obj("enum", Top.edecl.name, ArgsSoFar(Top), <<>>, Str(Top.ctor)))
  /\ CachePush(Ref(NewAddr), Top.sb)
  /\ pos' = pos + 1
  /\ skipped' = skipped \cup {pos}
  /\ Return(Ref(NewAddr))
  /\ ev' = Ev("e.new", 1, Top.n, NewAddr, <<>>)
  /\ UNCHANGED <<regs, sess, scache, steps, started>>

\* "b" string map and "M" object map share the shape of their loop
caseStringMap ==
  /\ Dispatch({"b"})
  /\ pos' = pos + 1
  /\ heap' = Alloc(NewObj("smap", <<>>))
  /\ CachePush(Ref(NewAddr), started)
  /\ started' = started + 1
  /\ stack' = SetTop(Start(Top, "b", "m.loop", NewAddr))
  /\ ev' = Ev("b", 1, 0, NewAddr, <<>>)
  /\ UNCHANGED <<regs, sess, scache, status, result, error>>
  /\ UNCHANGED skipped

caseObjectMap ==
  /\ Dispatch({"M"})
  /\ pos' = pos + 1
  /\ heap' = Alloc(NewObj("wmap", <<>>))
  /\ CachePush(Ref(NewAddr), started)
  /\ started' = started + 1
  /\ stack' = SetTop(Start(Top, "M", "m.loop", NewAddr))
  /\ ev' = Ev("M", 1, 0, NewAddr, <<>>)
  /\ UNCHANGED <<regs, sess, scache, status, result, error>>
  /\ UNCHANGED skipped

InMap == At("m.loop") \/ At("m.val")
\* hsm[smt] = v coerces the key to a string; wm.set(wms, v) keeps the key's identity
MapKeyOf(f) == IF f.op = "b" THEN Str(toKey(f.key, heap)) ELSE f.key
\* WeakMap.prototype.set throws on a key that is not an object
MapSetThrows(f) == f.st = "m.val" /\ f.op = "M" /\ ~IsObject(f.key)

mapSetInvalidKey ==
  /\ InMap
  /\ MapSetThrows(Top)
  /\ Throw("TypeError")
  /\ ev' = Ev("m.badkey", 0, 0, Top.obj, <<>>)
  /\ UNCHANGED <<regs, sess, pos, cache, scache, heap, steps, started, born>>
  /\ UNCHANGED skipped

mapNext ==
  /\ InMap
  /\ ~MapSetThrows(Top)
  /\ get(pos) # "h"
  /\ heap' = FieldPending(Top, "m.val", MapKeyOf(Top))
  /\ CallChild([Top EXCEPT !.st = "m.key"])
  /\ ev' = Ev("m.next", 1, 0, Top.obj, <<>>)
  /\ UNCHANGED <<regs, sess, pos, cache, scache, steps, started, born>>
  /\ UNCHANGED skipped

mapKey ==
  /\ At("m.key")
  /\ CallChild([Top EXCEPT !.st = "m.val", !.key = Top.v])
  /\ ev' = Ev("m.key", 1, 0, Top.obj, <<>>)
  /\ UNCHANGED <<regs, sess, pos, cache, scache, heap, steps, started, born>>
  /\ UNCHANGED skipped

mapEnd ==
  /\ InMap
  /\ ~MapSetThrows(Top)
  /\ get(pos) = "h"
  /\ pos' = pos + 1
  /\ heap' = FieldPending(Top, "m.val", MapKeyOf(Top))
  /\ Return(Ref(Top.obj))
  /\ ev' = Ev("m.end", 1, 0, Top.obj, <<>>)
  /\ UNCHANGED <<regs, sess, cache, scache, steps, started, born>>
  /\ UNCHANGED skipped

caseIntMap ==
  /\ Dispatch({"q"})
  /\ pos' = pos + 1
  /\ heap' = Alloc(NewObj("imap", <<>>))
  /\ CachePush(Ref(NewAddr), started)
  /\ started' = started + 1
  /\ stack' = SetTop(Start(Top, "q", "q.loop", NewAddr))
  /\ ev' = Ev("q", 1, 0, NewAddr, <<>>)
  /\ UNCHANGED <<regs, sess, scache, status, result, error>>
  /\ UNCHANGED skipped

InIntMap == At("q.loop") \/ At("q.val")
IntMapPending == FieldPending(Top, "q.val", Str(intChars(Top.n)))

intMapEntry ==
  /\ InIntMap
  /\ get(pos) = ":"
  /\ LET i == readDigits(pos + 1) IN
     /\ pos' = i.pos
     /\ CallChild([Top EXCEPT !.st = "q.val", !.n = i.k])
  /\ heap' = IntMapPending
  /\ ev' = Ev("q.entry", 1, 0, Top.obj, <<>>)
  /\ UNCHANGED <<regs, sess, cache, scache, steps, started, born>>
  /\ UNCHANGED skipped

intMapEnd ==
  /\ InIntMap
  /\ get(pos) # ":"
  /\ pos' = pos + 1
  /\ heap' = IntMapPending
  /\ IF get(pos) # "h" THEN Throw("Invalid IntMap format") ELSE Return(Ref(Top.obj))
  /\ ev' = Ev("q.end", IF get(pos) # "h" THEN 0 ELSE 1, 0, Top.obj, <<>>)
  /\ UNCHANGED <<regs, sess, cache, scache, steps, started, born>>
  /\ UNCHANGED skipped

caseDate ==
  /\ Dispatch({"v"})
  /\ LET r == readFloat(pos + 1) IN
     /\ pos' = r.pos
     /\ heap' = Alloc(Obj("date", <<>>, <<>>, <<>>, r.v))
  /\ CachePush(Ref(NewAddr), started)
  /\ started' = started + 1
  /\ Return(Ref(NewAddr))
  /\ ev' = Ev("v", 1, 0, NewAddr, <<>>)
  /\ UNCHANGED <<regs, sess, scache>>
  /\ UNCHANGED skipped

caseBytes ==
  /\ Dispatch({"s"})
  /\ started' = started + 1
  /\ LET r == readDigits(pos + 1)
         bytesLen == r.k
         p2 == r.pos + 1 IN
     IF get(r.pos) # ":" \/ length - p2 < bytesLen
       THEN /\ pos' = p2
            /\ Throw("Invalid bytes length")
            /\ UNCHANGED <<heap, cache, born>>
            /\ ev' = Ev("s", 0, bytesLen, 0, <<>>)
       ELSE /\ pos' = p2 + bytesLen
            /\ heap' = Alloc(Obj("bytes", <<>>, <<>>, <<>>, Str(base64Text(substr(p2, bytesLen)))))
            /\ CachePush(Ref(NewAddr), started)
            /\ Return(Ref(NewAddr))
            /\ ev' = Ev("s", 1, bytesLen, 0, <<>>)
  /\ UNCHANGED <<regs, sess, scache>>
  /\ UNCHANGED skipped

Next ==
  \/ registerSerializableClass
  \/ registerSerializableEnum
  \/ constructor
  \/ dispose
  \/ unserialize
  \/ caseScalar
  \/ caseInteger
  \/ caseFloat
  \/ caseString
  \/ caseReference
  \/ caseStringReference
  \/ caseException
  \/ throwException
  \/ caseUnsupported
  \/ caseDefault
  \/ caseArray
  \/ arrayEnd
  \/ arrayFill
  \/ arrayElement
  \/ caseList
  \/ listElement
  \/ listEnd
  \/ caseObject
  \/ unserializeObjectEof
  \/ unserializeObjectEnd
  \/ unserializeObjectNext
  \/ unserializeObjectKey
  \/ caseClass
  \/ classInstance
  \/ caseCustom
  \/ customInstance
  \/ customDecode
  \/ customEnd
  \/ caseEnumByName
  \/ enumByNameResolve
  \/ enumByNameTag
  \/ caseEnumByIndex
  \/ enumByIndexResolve
  \/ enumArgument
  \/ enumConstruct
  \/ caseStringMap
  \/ caseObjectMap
  \/ mapSetInvalidKey
  \/ mapNext
  \/ mapKey
  \/ mapEnd
  \/ caseIntMap
  \/ intMapEntry
  \/ intMapEnd
  \/ caseDate
  \/ caseBytes

Spec == Init /\ [][Next]_vars

\* the steps of a decode call: unserialize() runs to completion once called
Decode ==
  \/ caseScalar \/ caseInteger \/ caseFloat \/ caseString \/ caseReference
  \/ caseStringReference \/ caseException \/ throwException \/ caseUnsupported
  \/ caseDefault \/ caseArray \/ arrayEnd \/ arrayFill \/ arrayElement \/ caseList
  \/ listElement \/ listEnd \/ caseObject \/ unserializeObjectEof \/ unserializeObjectEnd
  \/ unserializeObjectNext \/ unserializeObjectKey \/ caseClass \/ classInstance
  \/ caseCustom \/ customInstance \/ customDecode \/ customEnd \/ caseEnumByName
  \/ enumByNameResolve \/ enumByNameTag \/ caseEnumByIndex \/ enumByIndexResolve
  \/ enumArgument \/ enumConstruct \/ caseStringMap \/ caseObjectMap \/ mapSetInvalidKey
  \/ mapNext \/ mapKey \/ mapEnd \/ caseIntMap \/ intMapEntry \/ intMapEnd \/ caseDate
  \/ caseBytes

\* JavaScript is single-threaded and unserialize() is synchronous: a call that has a
\* next step takes it
FairSpec == Init /\ [][Next]_vars /\ WF_vars(Decode)

----------------------------------------------------------------------------
(* Properties.                                                             *)

\* the innermost call hands v to its caller (or to the host)
Delivered(v) ==
  IF Len(stack) = 1
    THEN status' = "returned" /\ result' = v
    ELSE status' = "running" /\ Len(stack') = Len(stack) - 1 /\ stack'[Len(stack')].v = v

\* C1: with the default resolver, a 'c' or 'C' tag (a 'w' or 'j' tag) carrying a name
\* string that was never registered as a class (as an enum) fails with "Class not
\* found" ("Enum not found"), and no instance is created or pushed onto the cache.
C1_UnregisteredNeverResolves ==
  [][ /\ ((At("c.name") \/ At("C.name")) /\ IsString(Top.v) /\ Top.v.s \notin DOMAIN classRegister)
           => (status' = "error" /\ error' = "Class not found" /\ heap' = heap /\ cache' = cache)
      /\ ((At("w.name") \/ At("j.name")) /\ IsString(Top.v) /\ Top.v.s \notin DOMAIN enumRegister)
           => (status' = "error" /\ error' = "Enum not found" /\ heap' = heap /\ cache' = cache)
    ]_vars

C3_ReferencesChecked ==
  [][ /\ ev'.op = "r" =>
           IF ev'.n >= 0 /\ ev'.n < Len(cache)
             THEN Delivered(cache[ev'.n + 1]) /\ cache[ev'.n + 1].k = "ref"
             ELSE status' = "error" /\ error' \in FormatErrors
      /\ ev'.op = "R" =>
           IF ev'.n >= 0 /\ ev'.n < Len(scache)
             THEN Delivered(scache[ev'.n + 1]) /\ scache[ev'.n + 1].k = "str"
             ELSE status' = "error" /\ error' \in FormatErrors
    ]_vars
\* an 'r' whose index equals the cache length has been refused
C3_Witness ==
  /\ ev.op = "r" /\ ev.n = Len(cache) /\ Len(cache) >= 1
  /\ status = "error" /\ error = "Invalid reference"

NamePhases == {"c.name", "C.name", "w.name", "j.name", "w.tag"}
\* C4 as stated: every compound tag pushes its slot before any nested value is
\* decoded, so the index of a slot is the number of compound tags started before
\* its own, and a nested value has a higher index than its container.
C4_PushedBeforeChildren ==
  /\ \A i \in 1..Len(cache) : born[i] = i - 1
  /\ \A i \in 1..Len(stack) :
       (stack[i].op \in CompoundTags /\ i < Len(stack) /\ stack[i].st \notin NamePhases)
         => stack[i].slot >= 0

PushesFirst == {"a", "o", "l", "b", "q", "M"}
Owns(f) ==
  /\ f.slot >= 0 /\ f.slot < Len(cache)
  /\ cache[f.slot + 1] = Ref(f.obj)
  /\ born[f.slot + 1] = f.sb
C4_Frames ==
  \A i \in 1..Len(stack) :
    LET f == stack[i] IN
    /\ f.op \in PushesFirst => Owns(f)
    /\ f.op \in {"c", "C"} =>
         IF f.st \in {"c.name", "C.name"} THEN f.slot < 0 /\ (\A k \in 1..Len(born) : born[k] # f.sb)
         ELSE Owns(f)
    /\ f.op \in {"w", "j"} => f.slot < 0 /\ (\A k \in 1..Len(born) : born[k] # f.sb)
    \* whatever is started inside the body of such a container has a higher index
    /\ f.op \in PushesFirst => \A k \in 1..Len(cache) : born[k] > f.sb => k - 1 > f.slot
C4_Slots ==
  /\ Len(born) = Len(cache)
  /\ \A i, j \in 1..Len(cache) : i # j => born[i] # born[j]
  /\ \A i, j \in 1..Len(cache) :
       (i < j /\ born[i] > born[j]) => heap[cache[j].n].kind \in {"enum", "instance", "custom"}
  /\ status = "returned" => Len(cache) = started
C4_Step ==
  /\ ev'.op \notin {"new", "dispose"} =>
       \/ cache' = cache
       \/ Len(cache') = Len(cache) + 1 /\ SubSeq(cache', 1, Len(cache)) = cache
  /\ (ev'.op = "e.new") =>
       /\ cache' = Append(cache, Ref(ev'.a))
       \* the slots of the values decoded as its arguments are already there
       /\ \A i \in 1..Len(Top.acc) : Top.acc[i].k = "ref" =>
            \E k \in 1..Len(cache) : cache[k] = Top.acc[i]

\* C4 (amended): every compound tag that decodes pushes exactly one slot; a, o, l, b, q
\* and M push it before any nested value is decoded, c and C after the class name is
\* decoded and resolved and before the body, w and j only after the name, the variant
\* and all arguments are decoded; so a value nested in a container body has a higher
\* index than the container, and a compound enum argument a lower index than the enum.
C4_PushOrder == [](C4_Frames /\ C4_Slots) /\ [][C4_Step]_vars
\* an enum whose argument is an array has been decoded: the array has the lower index
C4_Witness ==
  /\ status = "returned"
  /\ \E i, j \in 1..Len(cache) :
       /\ i < j /\ born[i] > born[j]
       /\ heap[cache[j].n].kind = "enum" /\ heap[cache[i].n].kind = "array"
       /\ cache[i] \in {heap[cache[j].n].elems[k] : k \in 1..Len(heap[cache[j].n].elems)}

C5_Reference ==
  (ev'.op = "r" /\ ev'.ok = 1) =>
    /\ Delivered(cache[ev'.n + 1])
    /\ Len(stack') = Len(stack) - 1
    /\ heap' = heap /\ cache' = cache
C5_Results ==
  /\ (buf = InSelfArray /\ status = "returned") =>
       result = Ref(1) /\ Len(heap) = 1 /\ heap[1].elems = <<Ref(1)>>
  /\ (buf = InSelfObject /\ status = "returned") =>
       result = Ref(1) /\ Len(heap) = 1 /\ heap[1].fields = <<[key |-> Str(<<"x">>), val |-> Ref(1)]>>
  /\ (buf = InSelfInstance /\ status = "returned") =>
       /\ result = Ref(1) /\ Len(heap) = 1 /\ heap[1].kind = "instance"
       /\ heap[1].fields = <<[key |-> Str(<<"s">>), val |-> Ref(1)]>>
  /\ (buf = InShared /\ status = "returned") =>
       Len(heap) = 2 /\ heap[1].elems = <<Ref(2), Ref(2), Ref(2)>>
\* C5: 'r<k>' returns the very instance in slot k, not a copy, also when slot k holds
\* the container whose body is being decoded: nothing is allocated, no call is
\* entered, and the decode ends with a self-referential value.
C5_BackReferenceIdentity == []C5_Results /\ [][C5_Reference]_vars
\* a class instance whose field refers to the instance itself has been returned
C5_Witness ==
  /\ buf = InSelfInstance /\ status = "returned"
  /\ result = Ref(1) /\ heap[1].fields[1].val = result

C6_Step ==
  ev'.op \notin {"new", "dispose"} =>
    /\ IF ev'.op = "y" /\ ev'.ok = 1
         THEN /\ Len(scache') = Len(scache) + 1
              /\ SubSeq(scache', 1, Len(scache)) = scache
              /\ Delivered(scache'[Len(scache')])
         ELSE scache' = scache
    /\ ev'.op = "y" => cache' = cache /\ heap' = heap
    /\ (ev'.op = "R" /\ ev'.ok = 1 /\ ev'.n = 0) => Delivered(scache'[1])
C6_Result ==
  (buf = InFirstString /\ status = "returned") =>
    /\ scache = <<Str(<<"p">>), Str(<<"q">>), Str(<<"p">>)>>
    /\ heap[1].elems = <<Str(<<"p">>), Str(<<"q">>), Str(<<"p">>), Str(<<"p">>), Str(<<"p">>)>>
    /\ Len(cache) = 1
\* C6: within a session the string cache is append-only: a decoded 'y' appends one
\* entry (duplicates too), no other step appends, 'y' leaves the compound cache
\* alone, entries never change, and 'R0' gives the first string decoded.
C6_StringCacheAppendOnly == []C6_Result /\ [][C6_Step]_vars
\* three strings, one a duplicate, were cached and R0, R2 read back
C6_Witness ==
  /\ buf = InFirstString /\ status = "returned"
  /\ Len(scache) = 3 /\ scache[1] = scache[3]
  /\ heap[1].elems[4] = scache[1]

\* C7: for every count n >= 0 after 'u' and every array length L, the fill makes the
\* length L + n, the last added slot Null, the n - 1 slots before it holes, and leaves
\* the L elements already there unchanged.
C7_SparseFill ==
  (ev.op = "u" /\ ev.n >= 0) =>
    LET L == Len(ev.pre)
        e == heap[ev.a].elems IN
    /\ Len(e) = L + ev.n
    /\ ev.n >= 1 => e[L + ev.n] = Null
    /\ \A i \in (L + 1)..(L + ev.n - 1) : e[i] = Hole
    /\ \A i \in 1..L : i <= Len(e) /\ e[i] = ev.pre[i]

Descriptor(id) == CHOOSE d \in Classes \cup Enums : d.id = id
Rejected(d) == ~d.hasName \/ d.name \in {<<>>, <<"n", "u", "l", "l">>, <<"u", "n", "d", "e", "f", "i", "n", "e", "d">>}
Registers(reg, regAfter, d) ==
  /\ DOMAIN regAfter = DOMAIN reg \cup {d.name}
  /\ regAfter[d.name] = d
  /\ \A x \in DOMAIN reg \ {d.name} : regAfter[x] = reg[x]
C8_Step ==
  /\ ev'.op = "registerClass" =>
       IF Rejected(Descriptor(ev'.a))
         THEN ev'.ok = 0 /\ classRegister' = classRegister /\ enumRegister' = enumRegister
         ELSE /\ ev'.ok = 1 /\ enumRegister' = enumRegister
              /\ Registers(classRegister, classRegister', Descriptor(ev'.a))
  /\ ev'.op = "registerEnum" =>
       IF Rejected(Descriptor(ev'.a))
         THEN ev'.ok = 0 /\ classRegister' = classRegister /\ enumRegister' = enumRegister
         ELSE /\ ev'.ok = 1 /\ classRegister' = classRegister
              /\ Registers(enumRegister, enumRegister', Descriptor(ev'.a))
  /\ DOMAIN classRegister \subseteq DOMAIN classRegister'
  /\ DOMAIN enumRegister \subseteq DOMAIN enumRegister'
\* C8: a registration whose descriptor has no name, or the name "", "null" or
\* "undefined", fails and changes neither registry; any other maps the name to the
\* descriptor in its own registry only, replacing an earlier one; no step ever
\* removes a registered name.
C8_Registration == [][C8_Step]_vars
\* with both registries filled and decodes done, a registration was just rejected
C8_Witness ==
  /\ ev.op = "registerClass" /\ ev.ok = 0 /\ Descriptor(ev.a).name = <<"n", "u", "l", "l">>
  /\ initialized
  /\ <<"A">> \in DOMAIN classRegister /\ classRegister[<<"A">>] = ClassA2
  /\ <<"E">> \in DOMAIN enumRegister

C9_Step ==
  ev'.op = "e.new" =>
    /\ pos' = pos + 1
    /\ Len(heap') = Len(heap) + 1 /\ ev'.a = Len(heap')
    /\ heap'[ev'.a].kind = "enum" /\ Len(heap'[ev'.a].elems) = ev'.n
    /\ Delivered(Ref(ev'.a))
C9_Results ==
  /\ (buf = InEnumTwoArgs /\ status = "returned" /\ calls = 1) =>
       /\ heap = <<Obj("enum", <<"E">>, <<IntV(0), IntV(1)>>, <<>>, Str(<<"B">>))>>
       /\ result = Ref(1) /\ pos = 15
  /\ (buf = InEnumTwoArgs /\ status = "returned" /\ calls = 2) => result = Null /\ pos = 16
  /\ (buf = InEnumByIndex /\ status = "returned") =>
       /\ heap[1].elems = <<Null>> /\ pos = length + 1
       /\ heap[1].prim = Str(enumRegister[<<"E">>].constructs[2])
  /\ (buf = InEnumArrayArg /\ status = "returned") =>
       heap[1].elems = <<Ref(3), Ref(1), Ref(2)>> /\ heap[3].elems = <<Ref(2)>>
\* the construction step taken alone: exactly the k arguments announced, in stream
\* order, then the cursor one character further whatever that character is
C9_EnumArguments == []C9_Results /\ [][C9_Step]_vars
\* the two arguments were decoded, "X" was skipped and the host's next call read "n"
C9_Witness ==
  /\ buf = InEnumTwoArgs /\ status = "returned" /\ calls = 2
  /\ heap[1].elems = <<IntV(0), IntV(1)>> /\ result = Null
\* no tag is ever dispatched at a position an enum value has skipped
C9_Skip ==
  (steps' = steps + 1 /\ pos < length /\ get(pos) \in Tags) => pos \notin skipped
\* C9: for a resolved enum and variant, 'w' and 'j' decode exactly the k arguments
\* announced, in stream order, then move the cursor one character further whatever
\* it is (also at the end of the input), so that the character directly after the
\* last argument is never decoded as a value.
C9_SkippedNeverDecoded == []C9_Results /\ [][C9_Step /\ C9_Skip]_vars

C10_Step ==
  /\ (InObject /\ pos >= length) => status' = "error" /\ error' = "Invalid object"
  /\ (InObject /\ pos < length /\ get(pos) = "g") =>
       Delivered(Ref(Top.obj)) /\ pos' = pos + 1
  /\ (InObject /\ pos < length /\ get(pos) # "g") =>
       \* the character is decoded as a key, the body goes on
       \/ status' = "running" /\ Len(stack') = Len(stack) + 1 /\ stack'[Len(stack')].st = "call"
            /\ stack'[Len(stack)].st = "o.key" /\ pos' = pos
       \/ status' = "error" /\ error' = "RangeError: Maximum call stack size exceeded"
  /\ (status = "running" /\ Len(stack) >= 2 /\ stack[Len(stack) - 1].st = "o.key"
        /\ Top.st = "call" /\ get(pos) = "h" /\ steps < MaxSteps) =>
       status' = "error" /\ error' = "Invalid char"
  /\ (At("o.key") /\ Top.v.k # "str") =>
       /\ status' = "error" /\ error' = "Invalid object key"
       /\ heap' = heap /\ pos' = pos /\ steps' = steps
  /\ (At("o.key") /\ Top.v.k = "str") => status' # "returned" /\ heap' = heap
  /\ ev'.op = "o.end" => get(pos) = "g"
C10_Results ==
  /\ (buf = InObjectHKey /\ status \in {"returned", "error"}) =>
       status = "error" /\ error = "Invalid char" /\ pos = 7
  /\ (buf = InObjectRefKey /\ status = "returned") =>
       heap[1].fields = <<[key |-> Str(<<"a">>), val |-> IntV(2)]>>
\* C10: an 'o' or 'c' body alternates key and value; it ends exactly at a "g" in key
\* position, which is consumed; a key that is not a String fails with a format error
\* before a value is decoded or assigned; "h" in key position does not end the body;
\* the end of the input in key position is a format error.
C10_ObjectBody == []C10_Results /\ [][C10_Step]_vars
\* a key that decoded to a number has been refused
C10_Witness ==
  /\ ev.op = "o.key" /\ ev.ok = 0 /\ ev.pre = <<IntV(1)>>
  /\ status = "error" /\ error = "Invalid object key"
  /\ heap[ev.a].fields = <<>>

====
